---- MODULE Spec2Model ----
(***************************************************************************)
(* Model of @here/harp-lines/lib/TriangulateLines.ts: triangulateLine,     *)
(* addCircle, reconstructLine and reconstructLineWidth.                    *)
(*                                                                         *)
(* Numbers.  The code computes in floating point; the model computes the   *)
(* same expressions in exact fixed-point arithmetic:                       *)
(*   - input coordinates and widths are integers;                          *)
(*   - unit vectors (normalize(), cos/sin of a line angle) are carried in  *)
(*     units of 1/UNIT, which is exact for the segment directions the      *)
(*     model draws (axis-aligned and 3-4-5 directions);                    *)
(*   - the mitred direction `aver` is carried in units of 1/AVER;          *)
(*   - vertex buffer entries are carried in units of 1/SCALE;              *)
(*   - cos/sin of the multiples of STEP = pi/8 come from a table in units  *)
(*     of 1/TRIG (exact at the multiples of pi/2, rounded elsewhere);      *)
(*   - reconstructLine's output is carried in units of 1/(2*SCALE), so the *)
(*     "* 0.5" of the code is exact;                                       *)
(*   - reconstructLineWidth's result r >= 0 is carried as (2*SCALE*r)^2,   *)
(*     i.e. the radicand of its Math.sqrt.                                 *)
(***************************************************************************)
EXTENDS Integers, Sequences, FiniteSets, TLC

VARIABLES vertices, indices, calls, last, circles, result

vars == <<vertices, indices, calls, last, circles, result>>

----------------------------------------------------------------------------
(* Bounds of the model *)

MaxPts == 3
MaxWidth == 2
MaxCalls == 2

----------------------------------------------------------------------------
(* Constants of the program and of the number representation *)

UNIT_Z == <<0, 0, 1>>
POINTS == <<0, 1, 2, 1, 3, 2>>
SECTORS_IN_CIRCLE == 8

UNIT == 5
TRIG == 200
AVER == 2 * UNIT * UNIT * UNIT
SCALE == UNIT * TRIG
OUT_SCALE == 2 * SCALE

\* The value a read past the end of a typed array produces once it enters
\* arithmetic (undefined -> NaN).
NaN == -2147483647

\* cos(k * STEP) for k in 0..15, in units of 1/TRIG.
COS_TABLE == <<200, 185, 141, 77, 0, -77, -141, -185,
               -200, -185, -141, -77, 0, 77, 141, 185>>

CosStep(k) == COS_TABLE[(k % 16) + 1]
SinStep(k) == COS_TABLE[((k + 12) % 16) + 1]

----------------------------------------------------------------------------
(* Vector capability (THREE.Vector3 / THREE.Vector2) *)

ISqrt(n) == CHOOSE r \in 0..n : r * r <= n /\ n < (r + 1) * (r + 1)

Sub(a, b) == <<a[1] - b[1], a[2] - b[2], a[3] - b[3]>>
Add(a, b) == <<a[1] + b[1], a[2] + b[2], a[3] + b[3]>>
Dot(a, b) == a[1] * b[1] + a[2] * b[2] + a[3] * b[3]
MultiplyScalar(a, s) == <<a[1] * s, a[2] * s, a[3] * s>>
Cross(a, b) == <<a[2] * b[3] - a[3] * b[2],
                 a[3] * b[1] - a[1] * b[3],
                 a[1] * b[2] - a[2] * b[1]>>

\* normalize(): divideScalar(length() || 1); result in units of 1/UNIT.
Normalize(a) ==
    LET len == ISqrt(Dot(a, a))
    IN  IF len = 0 THEN <<0, 0, 0>>
        ELSE <<(UNIT * a[1]) \div len, (UNIT * a[2]) \div len, (UNIT * a[3]) \div len>>

\* A segment whose unit direction is exact in units of 1/UNIT.
Exact(dx, dy) ==
    LET n == dx * dx + dy * dy
        r == ISqrt(n)
    IN  /\ r * r = n
        /\ r = 0 \/ ((UNIT * dx) % r = 0 /\ (UNIT * dy) % r = 0)

\* An angle is carried as <<cos, sin>> in units of 1/UNIT.
ANGLE_0 == <<UNIT, 0>>
ANGLE_PI == <<0 - UNIT, 0>>

\* Vector2.set(dx, dy).angle(): the angle of the vector to the X axis
\* (0 for the zero vector).
Angle(dx, dy) ==
    LET u == Normalize(<<dx, dy, 0>>)
    IN  IF u[1] = 0 /\ u[2] = 0 THEN ANGLE_0 ELSE <<u[1], u[2]>>

----------------------------------------------------------------------------
(* addCircle *)

\* Rim vertex i: angle = STEP * i + PI / 2 + lineAngle.
RimVertex(x, y, lineAngle, radius, i) ==
    LET k == i + 4
        cosA == CosStep(k) * lineAngle[1] - SinStep(k) * lineAngle[2]
        sinA == SinStep(k) * lineAngle[1] + CosStep(k) * lineAngle[2]
    IN  <<x * SCALE + radius * cosA, y * SCALE + radius * sinA, 0>>

RimIndexBad(baseVertex, i) ==
    <<baseVertex, baseVertex + i + 1, baseVertex + (i + 1) + 1>>

RimIndex(baseVertex, i) ==
    <<baseVertex, baseVertex + i + 1,
      baseVertex + ((i + 1) % (SECTORS_IN_CIRCLE + 1)) + 1>>

RECURSIVE CircleLoop(_, _, _, _, _, _, _, _)
CircleLoop(x, y, lineAngle, radius, baseVertex, i, v, ix) ==
    IF ~(i < SECTORS_IN_CIRCLE + 1) THEN [vertices |-> v, indices |-> ix]
    ELSE CircleLoop(x, y, lineAngle, radius, baseVertex, i + 1,
                    v \o RimVertex(x, y, lineAngle, radius, i),
                    ix \o RimIndex(baseVertex, i))

AddCircleOverwrite(x, y, lineAngle, radius, v, ix) ==
    CircleLoop(x, y, lineAngle, radius, 0, 0, <<x * SCALE, y * SCALE, 0>>, ix)

AddCircle(x, y, lineAngle, radius, v, ix) ==
    LET baseVertex == Len(v) \div 3
    IN  CircleLoop(x, y, lineAngle, radius, baseVertex, 0,
                   v \o <<x * SCALE, y * SCALE, 0>>, ix)

\* What one addCircle call was given and where it wrote (history only).
CircleRecord(x, y, lineAngle, radius, v, ix, out) ==
    [x |-> x, y |-> y, lineAngle |-> lineAngle, radius |-> radius,
     baseVertex |-> Len(v) \div 3,
     vFrom |-> Len(v), vTo |-> Len(out.vertices),
     iFrom |-> Len(ix), iTo |-> Len(out.indices)]

----------------------------------------------------------------------------
(* triangulateLine *)

\* The early return: the length of the flat point array is compared with 2.
TooShort(points) == Len(points) < 2

\* Incline angle of the start cap.
StartLineAngleDefault(points) == ANGLE_0

StartLineAngle(points) ==
    IF Len(points) # 2
    THEN Angle(points[3] - points[1], points[4] - points[2])
    ELSE ANGLE_0

\* Incline angle of the end cap.
EndLineAngleForward(points) ==
    LET N == Len(points) \div 2
    IN  IF Len(points) # 2
        THEN Angle(points[(N - 1) * 2 + 1] - points[(N - 2) * 2 + 1],
                   points[(N - 1) * 2 + 2] - points[(N - 2) * 2 + 2])
        ELSE ANGLE_PI

EndLineAngle(points) ==
    LET N == Len(points) \div 2
    IN  IF Len(points) # 2
        THEN Angle(points[(N - 2) * 2 + 1] - points[(N - 1) * 2 + 1],
                   points[(N - 2) * 2 + 2] - points[(N - 1) * 2 + 2])
        ELSE ANGLE_PI

\* dir = normalize(n - p) x UNIT_Z, in units of 1/UNIT.
SegmentDirLeft(p, n) == Cross(UNIT_Z, Normalize(Sub(n, p)))

SegmentDir(p, n) == Cross(Normalize(Sub(n, p)), UNIT_Z)

\* aver = dir, and for i > 0 (dir + prevDir) * (1.0 - 0.5 * dir.dot(prevDir));
\* in units of 1/AVER.
Aver(dir, prevDir, i) ==
    IF i > 0
    THEN MultiplyScalar(Add(dir, prevDir), 2 * UNIT * UNIT - Dot(dir, prevDir))
    ELSE MultiplyScalar(dir, 2 * UNIT * UNIT)

\* copy(d).multiplyScalar(s).add(p), d in units of 1/den, result in 1/SCALE.
OffsetOneSided(d, den, s, p) ==
    Add(MultiplyScalar(d, (IF s < 0 THEN 0 ELSE s) * (SCALE \div den)),
        MultiplyScalar(p, SCALE))

Offset(d, den, s, p) ==
    Add(MultiplyScalar(d, s * (SCALE \div den)), MultiplyScalar(p, SCALE))

RECURSIVE ExtrudeLoop(_, _, _, _, _)
ExtrudeLoop(points, width, i, prevDir, v) ==
    LET N == Len(points) \div 2
    IN  IF ~(i < N) THEN v
        ELSE LET p == <<points[i * 2 + 1], points[i * 2 + 2], 0>>
             IN  IF i + 1 < N
                 THEN LET n == <<points[(i + 1) * 2 + 1], points[(i + 1) * 2 + 2], 0>>
                          dir == SegmentDir(p, n)
                          aver == Aver(dir, prevDir, i)
                          p0 == Offset(aver, AVER, 0 - width, p)
                          p1 == Offset(aver, AVER, width, p)
                      IN  ExtrudeLoop(points, width, i + 1, dir, v \o p0 \o p1)
                 ELSE LET p0 == Offset(prevDir, UNIT, 0 - width, p)
                          p1 == Offset(prevDir, UNIT, width, p)
                      IN  ExtrudeLoop(points, width, i + 1, prevDir, v \o p0 \o p1)

\* POINTS.forEach(o => indices.push(baseVertex + i * 2 + o))
SegmentIndicesShifted(baseVertex, i) ==
    [o \in 1..Len(POINTS) |-> baseVertex + i * 2 + POINTS[o] + 1]

SegmentIndices(baseVertex, i) ==
    [o \in 1..Len(POINTS) |-> baseVertex + i * 2 + POINTS[o]]

RECURSIVE IndexLoop(_, _, _, _)
IndexLoop(N, baseVertex, i, ix) ==
    IF ~(i < N - 1) THEN ix
    ELSE IndexLoop(N, baseVertex, i + 1, ix \o SegmentIndices(baseVertex, i))

\* The call past its early return: the buffers after it and the addCircle
\* calls it made.
Extrude(points, width, v, ix, startWithCircle, endWithCircle) ==
      LET N == Len(points) \div 2
          c1 == IF startWithCircle
                THEN AddCircle(points[1], points[2], StartLineAngle(points),
                               width, v, ix)
                ELSE [vertices |-> v, indices |-> ix]
          r1 == IF startWithCircle
                THEN <<CircleRecord(points[1], points[2], StartLineAngle(points),
                                    width, v, ix, c1)>>
                ELSE <<>>
          baseVertex == Len(c1.vertices) \div 3
          v2 == ExtrudeLoop(points, width, 0, <<0, 0, 0>>, c1.vertices)
          i2 == IndexLoop(N, baseVertex, 0, c1.indices)
          c2 == IF endWithCircle
                THEN AddCircle(points[(N - 1) * 2 + 1], points[(N - 1) * 2 + 2],
                               EndLineAngle(points), width, v2, i2)
                ELSE [vertices |-> v2, indices |-> i2]
          r2 == IF endWithCircle
                THEN <<CircleRecord(points[(N - 1) * 2 + 1], points[(N - 1) * 2 + 2],
                                    EndLineAngle(points), width, v2, i2, c2)>>
                ELSE <<>>
      IN  [vertices |-> c2.vertices, indices |-> c2.indices, circles |-> r1 \o r2]

TriangulateLineFresh(points, width, v, ix, startWithCircle, endWithCircle) ==
    IF TooShort(points)
    THEN [vertices |-> <<>>, indices |-> <<>>, circles |-> <<>>]
    ELSE Extrude(points, width, v, ix, startWithCircle, endWithCircle)

\* The whole call.
TriangulateLine(points, width, v, ix, startWithCircle, endWithCircle) ==
    IF TooShort(points)
    THEN [vertices |-> v, indices |-> ix, circles |-> <<>>]
    ELSE Extrude(points, width, v, ix, startWithCircle, endWithCircle)

----------------------------------------------------------------------------
(* reconstructLine, reconstructLineWidth *)

\* inBuffer[idx] with the code's 0-based idx; past the end it is undefined.
Get(buf, idx) == IF idx >= 0 /\ idx < Len(buf) THEN buf[idx + 1] ELSE NaN

\* a + (b - a) * 0.5, in units of 1/OUT_SCALE.
MidFirst(a, b) == IF a = NaN \/ b = NaN THEN NaN ELSE 2 * a

Mid(a, b) == IF a = NaN \/ b = NaN THEN NaN ELSE 2 * a + (b - a)

RECURSIVE ReconstructLoop(_, _, _, _)
ReconstructLoop(inBuffer, i, i2, outBuffer) ==
    IF ~(i < Len(outBuffer)) THEN outBuffer
    ELSE ReconstructLoop(inBuffer, i + 3, i2 + 6,
            [k \in 1..Len(outBuffer) |->
                IF k = i + 1 THEN Mid(Get(inBuffer, i2), Get(inBuffer, i2 + 3))
                ELSE IF k = i + 2 THEN Mid(Get(inBuffer, i2 + 1), Get(inBuffer, i2 + 3 + 1))
                ELSE IF k = i + 3 THEN Mid(Get(inBuffer, i2 + 2), Get(inBuffer, i2 + 3 + 2))
                ELSE outBuffer[k]])

ReconstructLineNoSkip(inBuffer, startOffset) ==
    ReconstructLoop(inBuffer, startOffset * 3, startOffset * 3,
                    [k \in 1..(Len(inBuffer) \div 2) |-> 0])

ReconstructLine(inBuffer, startOffset) ==
    ReconstructLoop(inBuffer, startOffset * 3, (startOffset * 3) * 2,
                    [k \in 1..(Len(inBuffer) \div 2) |-> 0])

ReconstructLineWidthStride(inBuffer, startIndex) ==
    LET a0 == Get(inBuffer, startIndex * 6)
        a1 == Get(inBuffer, startIndex * 6 + 1)
        a2 == Get(inBuffer, startIndex * 6 + 2)
        b0 == Get(inBuffer, startIndex * 6 + 3)
        b1 == Get(inBuffer, startIndex * 6 + 3 + 1)
        b2 == Get(inBuffer, startIndex * 6 + 3 + 2)
    IN  IF NaN \in {a0, a1, a2, b0, b1, b2} THEN NaN
        ELSE (b0 - a0) * (b0 - a0) + (b1 - a1) * (b1 - a1) + (b2 - a2) * (b2 - a2)

\* The radicand of Math.sqrt(xd * xd + yd * yd + zd * zd): with r the
\* returned width, (2 * SCALE * r)^2.
ReconstructLineWidth(inBuffer, startIndex) ==
    LET a0 == Get(inBuffer, startIndex * 2)
        a1 == Get(inBuffer, startIndex * 2 + 1)
        a2 == Get(inBuffer, startIndex * 2 + 2)
        b0 == Get(inBuffer, startIndex * 2 + 3)
        b1 == Get(inBuffer, startIndex * 2 + 3 + 1)
        b2 == Get(inBuffer, startIndex * 2 + 3 + 2)
    IN  IF NaN \in {a0, a1, a2, b0, b1, b2} THEN NaN
        ELSE (b0 - a0) * (b0 - a0) + (b1 - a1) * (b1 - a1) + (b2 - a2) * (b2 - a2)

----------------------------------------------------------------------------
(* Inputs *)

PointSet == {<<0, 0>>, <<4, 0>>, <<10, 0>>, <<0, 3>>, <<4, 3>>}

RECURSIVE Flatten(_)
Flatten(ps) == IF ps = <<>> THEN <<>> ELSE Head(ps) \o Flatten(Tail(ps))

ExactPath(ps) ==
    \A k \in 1..(Len(ps) - 1) : Exact(ps[k + 1][1] - ps[k][1], ps[k + 1][2] - ps[k][2])

\* Flat point arrays of 0..MaxPts points whose unit directions are exact.
Polylines ==
    {Flatten(ps) : ps \in {q \in UNION {[1..n -> PointSet] : n \in 0..MaxPts} : ExactPath(q)}}

Widths == (0 - 1)..MaxWidth

\* Inputs of a sequence of calls on one buffer pair: the prefixes of one bent
\* path, and a dangling single number.
PATH == <<0, 0, 4, 0, 4, 3, 0, 0, 0, 3, 4, 3>>
SeqPolylines == {SubSeq(PATH, 1, 2 * n) : n \in 0..MaxPts} \cup {<<0>>}
SeqWidths == {1, MaxWidth}

----------------------------------------------------------------------------
(* State machine *)

NoCall == [points |-> <<>>, width |-> 0, startWithCircle |-> FALSE,
           endWithCircle |-> FALSE, vFrom |-> 0, iFrom |-> 0]
NoResult == [kind |-> "none", arg |-> 0, buf |-> <<>>, val |-> 0]

Init ==
    /\ vertices = <<>>
    /\ indices = <<>>
    /\ calls = 0
    /\ last = NoCall
    /\ circles = <<>>
    /\ result = NoResult

DoTriangulateLine(points, width, startWithCircle, endWithCircle) ==
    LET out == TriangulateLine(points, width, vertices, indices,
                               startWithCircle, endWithCircle)
    IN  /\ vertices' = out.vertices
        /\ indices' = out.indices
        /\ circles' = out.circles
        /\ calls' = calls + 1
        /\ last' = [points |-> points, width |-> width,
                    startWithCircle |-> startWithCircle,
                    endWithCircle |-> endWithCircle,
                    vFrom |-> Len(vertices), iFrom |-> Len(indices)]
        /\ result' = NoResult

\* triangulateLine on a fresh buffer pair.
CallFresh ==
    /\ calls = 0
    /\ \E points \in Polylines, width \in Widths, s \in BOOLEAN, e \in BOOLEAN :
          DoTriangulateLine(points, width, s, e)

\* triangulateLine on the buffer pair the earlier calls wrote.
CallAgain ==
    /\ calls < MaxCalls
    /\ \E points \in SeqPolylines, width \in SeqWidths, s \in BOOLEAN, e \in BOOLEAN :
          DoTriangulateLine(points, width, s, e)

StartOffsets == {0, (SECTORS_IN_CIRCLE + 2) \div 2}
StartIndexes ==
    (0..(3 * MaxPts - 1)) \cup {3 * ((SECTORS_IN_CIRCLE + 2) \div 2 + k) : k \in 0..(MaxPts - 1)}

DoReconstructLine ==
    /\ calls > 0
    /\ \E startOffset \in StartOffsets :
          result' = [kind |-> "line", arg |-> startOffset,
                     buf |-> ReconstructLine(vertices, startOffset), val |-> 0]
    /\ UNCHANGED <<vertices, indices, calls, last, circles>>

DoReconstructLineWidth ==
    /\ calls > 0
    /\ \E startIndex \in StartIndexes :
          result' = [kind |-> "width", arg |-> startIndex, buf |-> <<>>,
                     val |-> ReconstructLineWidth(vertices, startIndex)]
    /\ UNCHANGED <<vertices, indices, calls, last, circles>>

Next == CallFresh \/ DoReconstructLine \/ DoReconstructLineWidth

Spec == Init /\ [][Next]_vars

NextSeq == CallAgain

SpecSeq == Init /\ [][NextSeq]_vars

----------------------------------------------------------------------------
(* Vocabulary of the properties *)

IsPrefix(a, b) == Len(a) <= Len(b) /\ SubSeq(b, 1, Len(a)) = a

\* Vertex k (0-based) of the vertex buffer.
Vtx(k) == <<vertices[3 * k + 1], vertices[3 * k + 2], vertices[3 * k + 3]>>

\* Point k (0-based) of the polyline of the last call.
LastN == Len(last.points) \div 2
Pt(k) == <<last.points[2 * k + 1], last.points[2 * k + 2], 0>>

DistinctConsecutive == \A k \in 0..(LastN - 2) : Pt(k) # Pt(k + 1)
AxisAligned(d) == (d[1] = 0) # (d[2] = 0)
NoCaps == ~last.startWithCircle /\ ~last.endWithCircle

\* The call just made, as a step.
Called == calls' = calls + 1

\* Index of the first stroke vertex the last call wrote.
StrokeBase ==
    last.vFrom \div 3 + (IF last.startWithCircle THEN SECTORS_IN_CIRCLE + 2 ELSE 0)

\* a is the angle of the vector (dx, dy) to the X axis.
IsAngleOf(a, dx, dy) ==
    /\ a[1] * a[1] + a[2] * a[2] = UNIT * UNIT
    /\ a[1] * dy = a[2] * dx
    /\ a[1] * dx + a[2] * dy >= 0
    /\ (dx = 0 /\ dy = 0) => a = ANGLE_0

----------------------------------------------------------------------------
(* C1 *)

\* C1 (as stated): a call with a polyline of fewer than 2 points (0 points, or
\* 1 point, a 2-number array) leaves the vertex buffer and the index buffer
\* exactly as they were.
C1_FewerThanTwoPointsNoOp ==
    [][(Called /\ Len(last'.points) < 4)
         => (vertices' = vertices /\ indices' = indices)]_vars

\* C1 (amended): a call with a point array of fewer than 2 numbers leaves both
\* buffers exactly as they were, whatever they held, and whatever the width
\* and the cap flags.
C1_FewerThanTwoNumbersNoOp ==
    [][(Called /\ Len(last'.points) < 2)
         => (vertices' = vertices /\ indices' = indices)]_vars

C1_Witness ==
    /\ calls = 2
    /\ Len(last.points) < 2
    /\ last.startWithCircle /\ last.endWithCircle
    /\ last.vFrom > 0 /\ last.iFrom > 0
    /\ Len(vertices) = last.vFrom /\ Len(indices) = last.iFrom

\* C1 (amended, second half): a single point (a 2-number array) is not a no-op:
\* the call appends the point's two coincident vertices and, for each cap flag
\* set, a cap of SECTORS_IN_CIRCLE + 2 vertices; it appends no stroke triangle.
C1_SinglePointAppends ==
    (calls > 0 /\ Len(last.points) = 2) =>
        LET caps == (IF last.startWithCircle THEN 1 ELSE 0)
                    + (IF last.endWithCircle THEN 1 ELSE 0)
        IN  /\ Len(vertices) = last.vFrom + 3 * (2 + caps * (SECTORS_IN_CIRCLE + 2))
            /\ Len(indices) = last.iFrom + 3 * caps * (SECTORS_IN_CIRCLE + 1)
            /\ Vtx(StrokeBase) = MultiplyScalar(Pt(0), SCALE)
            /\ Vtx(StrokeBase + 1) = MultiplyScalar(Pt(0), SCALE)

----------------------------------------------------------------------------
(* C2 *)

IsStraightCase ==
    /\ calls = 1 /\ NoCaps /\ LastN = 2 /\ Len(last.points) = 4
    /\ Pt(0) = <<0, 0, 0>> /\ Pt(1)[1] > 0 /\ Pt(1)[2] = 0
    /\ last.width > 0

\* C2 (as stated): [0,0, L,0] with width w > 0 on empty buffers gives
\* v = [0,-w,0, 0,w,0, L,-w,0, L,w,0] and i = [0,1,2, 1,3,2].
C2_MinusSideFirst ==
    IsStraightCase =>
        LET L == Pt(1)[1]
            w == last.width
        IN  /\ vertices = [k \in 1..12 |->
                   SCALE * <<0, 0 - w, 0, 0, w, 0, L, 0 - w, 0, L, w, 0>>[k]]
            /\ indices = <<0, 1, 2, 1, 3, 2>>

\* C2 (amended): [0,0, L,0] with width w > 0 on empty buffers gives
\* v = [0,w,0, 0,-w,0, L,w,0, L,-w,0] (the +w-side vertex of each point
\* first) and i = [0,1,2, 1,3,2].
C2_PlusSideFirst ==
    IsStraightCase =>
        LET L == Pt(1)[1]
            w == last.width
        IN  /\ vertices = [k \in 1..12 |->
                   SCALE * <<0, w, 0, 0, 0 - w, 0, L, w, 0, L, 0 - w, 0>>[k]]
            /\ indices = <<0, 1, 2, 1, 3, 2>>

C2_Witness ==
    /\ IsStraightCase
    /\ last.points = <<0, 0, 10, 0>> /\ last.width = 2
    /\ Len(vertices) = 12

----------------------------------------------------------------------------
(* C3 *)

IsRoundTripCase(startOffset) ==
    /\ calls = 1 /\ LastN >= 2 /\ DistinctConsecutive
    /\ result.kind = "line" /\ result.arg = startOffset

\* C3: with both cap flags false, reconstructLine(v, 0) of the vertex buffer
\* of a polyline of N >= 2 points with distinct consecutive points has, for
\* every k in 0..N-1, output point k equal to input point k.
C3_CenterlineRoundTrip ==
    (IsRoundTripCase(0) /\ NoCaps) =>
        /\ Len(result.buf) = 3 * LastN
        /\ \A k \in 0..(LastN - 1) :
              /\ result.buf[3 * k + 1] = OUT_SCALE * Pt(k)[1]
              /\ result.buf[3 * k + 2] = OUT_SCALE * Pt(k)[2]
              /\ result.buf[3 * k + 3] = 0

\* A bent three-point polyline (a mitred interior join) was reconstructed.
C3_Witness ==
    /\ IsRoundTripCase(0) /\ NoCaps
    /\ LastN = 3 /\ last.width = 2
    /\ Dot(Sub(Pt(1), Pt(0)), Sub(Pt(2), Pt(1))) # 0
    /\ Cross(Sub(Pt(1), Pt(0)), Sub(Pt(2), Pt(1))) # <<0, 0, 0>>
    /\ Vtx(2) # Vtx(3)
    /\ Len(result.buf) = 9

----------------------------------------------------------------------------
(* C4 *)

IsWidthCase ==
    /\ calls = 1 /\ LastN >= 2 /\ DistinctConsecutive /\ NoCaps
    /\ last.width >= 0
    /\ result.kind = "width"

WidthIs(w) == result.val = (2 * SCALE * w) * (2 * SCALE * w)

\* C4 (as stated): for every vertex-pair index k in 0..N-1,
\* reconstructLineWidth(v, k) equals w.
C4_WidthAtEveryPair ==
    (IsWidthCase /\ result.arg \in 0..(LastN - 1)) => WidthIs(last.width)

\* C4 (amended): reconstructLineWidth(v, 0) equals w, and with startIndex 3k,
\* k the first or the last point, it equals w too (it reads the floats from
\* flat offset 2 * startIndex on, so 3k selects vertices 2k and 2k+1).
C4_WidthAtEnds ==
    (IsWidthCase /\ result.arg \in {0, 3 * (LastN - 1)}) => WidthIs(last.width)

C4_Witness ==
    /\ IsWidthCase
    /\ LastN = 3 /\ last.width = 2
    /\ result.arg = 6
    /\ WidthIs(2)

\* C4 (why not the interior points): at a right-angle join the pair of the
\* interior point is sqrt(2) * 2w apart.
C4_WidthAtBend ==
    (/\ IsWidthCase /\ LastN = 3 /\ result.arg = 3
     /\ Dot(Sub(Pt(1), Pt(0)), Sub(Pt(2), Pt(1))) = 0)
        => result.val = 2 * (2 * SCALE * last.width) * (2 * SCALE * last.width)

----------------------------------------------------------------------------
(* C5 *)

\* C5: every call leaves the entries the vertex buffer and the index buffer
\* held before it unchanged and in place: the buffers after the call are the
\* buffers before it followed by the appended entries.
C5_AppendOnly ==
    [][IsPrefix(vertices, vertices') /\ IsPrefix(indices, indices')]_vars

\* A second call with both caps appended to buffers the first call filled.
C5_Witness ==
    /\ calls = 2
    /\ last.vFrom > 0 /\ last.iFrom > 0
    /\ last.startWithCircle /\ last.endWithCircle /\ LastN = 3
    /\ Len(vertices) > last.vFrom /\ Len(indices) > last.iFrom

----------------------------------------------------------------------------
(* C6 *)

\* C6: after every completed call of any sequence of calls on empty buffers,
\* the vertex buffer length and the index buffer length are multiples of 3 and
\* every index is a non-negative integer below the vertex count.
C6_WellFormed ==
    /\ Len(vertices) % 3 = 0
    /\ Len(indices) % 3 = 0
    /\ \A k \in 1..Len(indices) :
          indices[k] >= 0 /\ indices[k] < Len(vertices) \div 3

\* Two calls with caps and strokes; the last index entry names a rim vertex of
\* the last cap.
C6_Witness ==
    /\ calls = 2
    /\ last.startWithCircle /\ last.endWithCircle /\ LastN = 3
    /\ last.iFrom > 0
    /\ Len(indices) = last.iFrom + 3 * (2 * (SECTORS_IN_CIRCLE + 1) + 2 * (LastN - 1))
    /\ indices[Len(indices)] = Len(vertices) \div 3 - (SECTORS_IN_CIRCLE + 1)

----------------------------------------------------------------------------
(* C7 *)

\* C7: every addCircle call on a vertex buffer holding B vertices appends
\* SECTORS_IN_CIRCLE + 2 vertices, the center first at index B, and
\* SECTORS_IN_CIRCLE + 1 triangles, triangle i being
\* (B, B+1+i, B+1+((i+1) mod 9)); every emitted index is below B + 10.
C7_CapGeometry ==
    \A j \in 1..Len(circles) :
        LET c == circles[j]
            B == c.vFrom \div 3
        IN  /\ c.baseVertex = B /\ 3 * B = c.vFrom
            /\ c.vTo - c.vFrom = 3 * (SECTORS_IN_CIRCLE + 2)
            /\ c.iTo - c.iFrom = 3 * (SECTORS_IN_CIRCLE + 1)
            /\ Vtx(B) = <<SCALE * c.x, SCALE * c.y, 0>>
            /\ \A i \in 0..SECTORS_IN_CIRCLE :
                  /\ indices[c.iFrom + 3 * i + 1] = B
                  /\ indices[c.iFrom + 3 * i + 2] = B + 1 + i
                  /\ indices[c.iFrom + 3 * i + 3] = B + 1 + ((i + 1) % 9)
            /\ \A k \in (c.iFrom + 1)..c.iTo : indices[k] < B + 10

\* Two caps written by one call onto buffers that already held vertices; the
\* last triangle of the last cap wraps to its rim vertex 0.
C7_Witness ==
    /\ Len(circles) = 2
    /\ circles[1].baseVertex > 0
    /\ circles[2].baseVertex > circles[1].baseVertex
    /\ indices[circles[2].iTo] = circles[2].baseVertex + 1

----------------------------------------------------------------------------
(* C8 *)

\* Rim vertex i (0-based) and center of the j-th addCircle call.
Rim(j, i) == Vtx(circles[j].baseVertex + 1 + i)
Center(j) == Vtx(circles[j].baseVertex)

FirstSegment == Sub(Pt(1), Pt(0))
LastSegment == Sub(Pt(LastN - 1), Pt(LastN - 2))

IsCapCase ==
    /\ calls = 1 /\ LastN >= 2 /\ last.width > 0
    /\ AxisAligned(FirstSegment) /\ AxisAligned(LastSegment)

\* C8: with axis-aligned first and last segments and w > 0, rim vertices 0 and
\* 8 of the start cap are the two offset vertices of the first point, rim
\* vertices 0 and 8 of the end cap are the two offset vertices of the last
\* point, and the rim vertices between them lie on the side pointing away
\* from the line.
C8_CapOrientation ==
    IsCapCase =>
        /\ last.startWithCircle =>
              /\ {Rim(1, 0), Rim(1, SECTORS_IN_CIRCLE)}
                    = {Vtx(StrokeBase), Vtx(StrokeBase + 1)}
              /\ Rim(1, 0) # Rim(1, SECTORS_IN_CIRCLE)
              /\ \A i \in 1..(SECTORS_IN_CIRCLE - 1) :
                    Dot(Sub(Rim(1, i), Center(1)), FirstSegment) < 0
        /\ last.endWithCircle =>
              /\ {Rim(Len(circles), 0), Rim(Len(circles), SECTORS_IN_CIRCLE)}
                    = {Vtx(StrokeBase + 2 * (LastN - 1)),
                       Vtx(StrokeBase + 2 * (LastN - 1) + 1)}
              /\ Rim(Len(circles), 0) # Rim(Len(circles), SECTORS_IN_CIRCLE)
              /\ \A i \in 1..(SECTORS_IN_CIRCLE - 1) :
                    Dot(Sub(Rim(Len(circles), i), Center(Len(circles))), LastSegment) > 0

\* Both caps on a polyline that starts along -X and ends along +Y.
C8_Witness ==
    /\ IsCapCase
    /\ last.startWithCircle /\ last.endWithCircle
    /\ LastN = 3
    /\ FirstSegment[1] < 0 /\ LastSegment[2] > 0
    /\ Len(circles) = 2

----------------------------------------------------------------------------
(* C9 *)

StartCapAngle == circles[1].lineAngle
EndCapAngle == circles[Len(circles)].lineAngle

\* C9 (as stated): a polyline of exactly two points passes angle 0 to the
\* start cap and pi to the end cap whatever its direction; one of three or
\* more points passes the angle of (second - first) and of
\* (second-to-last - last).
C9_DefaultForOneSegment ==
    calls = 1 =>
        /\ (last.startWithCircle /\ LastN = 2) => StartCapAngle = ANGLE_0
        /\ (last.endWithCircle /\ LastN = 2) => EndCapAngle = ANGLE_PI
        /\ (last.startWithCircle /\ LastN >= 3) =>
              IsAngleOf(StartCapAngle, FirstSegment[1], FirstSegment[2])
        /\ (last.endWithCircle /\ LastN >= 3) =>
              IsAngleOf(EndCapAngle, 0 - LastSegment[1], 0 - LastSegment[2])

\* C9 (amended): a polyline of exactly one point (a 2-number array) passes
\* angle 0 to the start cap and pi to the end cap; one of two or more points
\* passes the angle of (second - first) and of (second-to-last - last).
C9_DefaultForOnePoint ==
    calls = 1 =>
        /\ (last.startWithCircle /\ LastN = 1) => StartCapAngle = ANGLE_0
        /\ (last.endWithCircle /\ LastN = 1) => EndCapAngle = ANGLE_PI
        /\ (last.startWithCircle /\ LastN >= 2) =>
              IsAngleOf(StartCapAngle, FirstSegment[1], FirstSegment[2])
        /\ (last.endWithCircle /\ LastN >= 2) =>
              IsAngleOf(EndCapAngle, 0 - LastSegment[1], 0 - LastSegment[2])

\* A two-point polyline along +Y got its start cap at pi/2 and its end cap at
\* 3pi/2.
C9_Witness ==
    /\ calls = 1 /\ LastN = 2
    /\ last.startWithCircle /\ last.endWithCircle
    /\ FirstSegment[1] = 0 /\ FirstSegment[2] > 0
    /\ StartCapAngle = <<0, UNIT>>
    /\ EndCapAngle = <<0, 0 - UNIT>>

----------------------------------------------------------------------------
(* C10 *)

CapVertices == SECTORS_IN_CIRCLE + 2
HalfCap == CapVertices \div 2

\* C10: with startWithCircle, the 10 start-cap vertices precede the 2N stroke
\* vertices, which precede any end-cap vertices, and reconstructLine(v, 5)
\* has output point 5+j equal to input point j for j in 0..N-1, output points
\* 0..4 zero, and reads nothing past the end of the input for those points.
C10_RoundTripWithStartCap ==
    (IsRoundTripCase(HalfCap) /\ last.startWithCircle) =>
        /\ circles[1].vFrom = 0 /\ circles[1].vTo = 3 * CapVertices
        /\ StrokeBase = CapVertices
        /\ Len(vertices) = 3 * (CapVertices + 2 * LastN
                                + (IF last.endWithCircle THEN CapVertices ELSE 0))
        /\ last.endWithCircle => circles[2].vFrom = 3 * (CapVertices + 2 * LastN)
        /\ Len(result.buf) = Len(vertices) \div 2
        /\ \A j \in 0..(LastN - 1) :
              /\ result.buf[3 * (HalfCap + j) + 1] = OUT_SCALE * Pt(j)[1]
              /\ result.buf[3 * (HalfCap + j) + 2] = OUT_SCALE * Pt(j)[2]
              /\ result.buf[3 * (HalfCap + j) + 3] = 0
        /\ \A k \in 1..(3 * HalfCap) : result.buf[k] = 0
        /\ \A k \in 1..Len(result.buf) : result.buf[k] # NaN

\* A bent three-point polyline with both caps was reconstructed from offset 5.
C10_Witness ==
    /\ IsRoundTripCase(HalfCap)
    /\ last.startWithCircle /\ last.endWithCircle
    /\ LastN = 3 /\ last.width = 2
    /\ Cross(FirstSegment, LastSegment) # <<0, 0, 0>>
    /\ Len(result.buf) = 3 * (CapVertices + LastN)

====
